---- MODULE Spec2Model ----
(***************************************************************************)
(* A model of flickr-crawler. Of download.py: the descriptor FlickrUrl, the *)
(* worker SimpleDownloader.try_download, and the driver                    *)
(* download_crawled_images with the ray.util.ActorPool it feeds and drains *)
(* (specification Spec). Of crawl.py: crawl_flickr_images and the query    *)
(* search_for_keyword it makes per date window (specification SpecCrawl).  *)
(***************************************************************************)
EXTENDS Integers, Sequences, FiniteSets, TLC

\* ------------------------------------------------------------------ bounds
MaxFiles == 2       \* batch files found under json_path
MaxBatchLen == 2    \* records in one batch file
NumIds == 2         \* distinct photo identifiers
MaxWorkers == 2     \* largest n_workers tried
MaxCap == 1         \* largest positive max_images tried
MaxDate == 3        \* latest day of date_from and date_until (days count from 0)
MaxInterval == 2    \* largest date_interval tried
MaxPhotos == 2      \* photos the API holds for one date window
MaxResults == 1     \* search_for_keyword's max (4000 in the source)

\* ------------------------------------------------------- program constants
MIN_SIZE == 75      \* is_image_valid: max(img.size) < 75 is rejected
NO_CAP == -1        \* default of max_images

\* Python's None, and a key that the JSON object does not hold.
None == 0
Missing == -1

Ids == 1 .. NumIds

\* A URL https://farm{farm}.staticflickr.com/{server}/{id}_{secret}_{size}.jpg
NoUrl == [farm |-> None, server |-> None, id |-> None, secret |-> None, size |-> ""]
Url(farm, server, id, secret, size) ==
    [farm |-> farm, server |-> server, id |-> id, secret |-> secret, size |-> size]

\* ----------------------------------------------------------- input records
\* One record of a batch file, as the crawl stage writes it. Every field of
\* version 2 differs from the same field of version 1; version 2 carries no
\* url_o (the photo's original is not available).
GoodRecord(i, v) ==
    [id |-> i, owner |-> v, secret |-> v, server |-> v, farm |-> v, title |-> v,
     url_o |-> IF v = 1 THEN Url(v, v, i, v + 2, "o") ELSE NoUrl, width_o |-> 1024]

\* The records a batch may hold: a well-formed one per identifier, the first
\* identifier once more with other metadata, and the malformed ones.
Records ==
    { GoodRecord(i, 1) : i \in Ids }
    \cup { GoodRecord(1, 2),
           [GoodRecord(1, 1) EXCEPT !.secret = Missing],
           [GoodRecord(1, 1) EXCEPT !.secret = None],
           [GoodRecord(1, 1) EXCEPT !.server = Missing],
           [GoodRecord(1, 1) EXCEPT !.server = None],
           [GoodRecord(1, 2) EXCEPT !.width_o = Missing],
           [GoodRecord(1, 1) EXCEPT !.farm = None] }

\* ------------------------------------------------------------ FlickrUrl
\* result.get(key): None for a key the object does not hold (an absent url_o
\* is NoUrl in the record already).
DictGet(v) == IF v = Missing THEN None ELSE v

\* A test that wants both to be None.
FlickrUrlInitRaisesBoth(secret, server) == secret = None /\ server = None
\* Lines 28-29: FlickrUrl.__init__ raises ValueError.
FlickrUrlInitRaises(secret, server) == secret = None \/ server = None

\* Lines 187-196: the exception raised while a record is turned into a
\* descriptor, "" when there is none.
RecordError(result) ==
    IF result.width_o = Missing THEN "TypeError@191"    \* result.get['size_o']
    ELSE IF \E k \in {"id", "owner", "secret", "server", "farm"} : result[k] = Missing
         THEN "KeyError@193"                              \* result['secret']
    ELSE IF FlickrUrlInitRaises(result.secret, result.server)
         THEN "ValueError@29"                             \* FlickrUrl.__init__
    ELSE ""

FlickrUrl(result) ==
    [id |-> result.id, owner |-> result.owner, secret |-> result.secret,
     server |-> result.server, farm |-> result.farm,
     title |-> DictGet(result.title), url_o |-> result.url_o]

get_url(furl, size) ==
    IF size = "o" /\ furl.url_o # NoUrl THEN furl.url_o
    ELSE IF furl.farm # None
         THEN Url(furl.farm, furl.server, furl.id, furl.secret, size)
    ELSE NoUrl                                            \* raise NotImplementedError

\* A name that leaves the identifier out: {secret}.jpg
basenameNoId(furl) ==
    LET u == get_url(furl, "o")
    IN  [id |-> None, secret |-> u.secret, size |-> IF u.size = "o" THEN "" ELSE u.size]
\* os.path.basename(url).replace('_o.jpg', '.jpg'): the last path segment
\* {id}_{secret}_{size}.jpg, its "_o" suffix dropped.
basename(furl) ==
    LET u == get_url(furl, "o")
    IN  [id |-> u.id, secret |-> u.secret, size |-> IF u.size = "o" THEN "" ELSE u.size]

\* An equality that compares every field.
FlickrUrlEqAllFields(a, b) == a = b
\* Lines 77-87: __hash__ and __eq__ read the id alone.
FlickrUrlEq(a, b) == a.id = b.id

\* ------------------------------------------------------------------ state
VARIABLES
    json_files,       \* sorted(glob(...)): the batch files, each by the stem of its name
    n_workers,        \* parameter
    max_images,       \* parameter
    create_subdirs,   \* parameter
    pc,               \* where download_crawled_images stands
    error,            \* the exception that ended the run, "" when none
    file_idx,         \* index of jsonfile in json_files
    rec_idx,          \* index of result in search_results (the batch of jsonfile)
    queued_urls,      \* set of descriptors already submitted
    idle_actors,      \* ActorPool._idle_actors
    pending_submits,  \* ActorPool._pending_submits
    future_to_actor,  \* ActorPool._future_to_actor: the futures not yet returned
    next_return_index,\* ActorPool._next_return_index
    tasks,            \* the try_download calls made, by task index
    mailbox,          \* per actor, the calls sent to it and not finished, oldest first
    waiting,          \* the future ray.get blocks on inside get_next, 0 when none
    writes,           \* the file writes done: the task index and the path written
    net,              \* the GETs issued: <<task index, size>>
    pbar_total,       \* tqdm total of the "Downloading" bar, -1 before it exists
    pbar_n,           \* tqdm count of the "Downloading" bar
    submit_log,       \* the values handed to pool.submit, in order, each with its file index
    last_result,      \* the record the ingestion loop read last (result)
    last_dup,         \* the descriptor last skipped as a duplicate (line 199), with its file index
    finish_log,       \* the task indices, in the order their calls returned
    received,         \* the task indices whose result get_next handed to the drain loop
    date_from,        \* crawl_flickr_images: parameter
    date_until,       \* crawl_flickr_images: parameter
    date_interval,    \* crawl_flickr_images: parameter
    crawl_pc,         \* where crawl_flickr_images stands, "idle" when it does not run
    crawl_error,      \* the exception that ended crawl_flickr_images, "" when none
    search_dates,     \* the start dates of the windows
    date_idx,         \* index of _search_date in search_dates
    queried,          \* the dates search_for_keyword was called with, in order
    disk              \* the files opened for writing under output_dir, in order

vars == <<json_files, n_workers, max_images, create_subdirs, pc, error, file_idx,
          rec_idx, queued_urls, idle_actors, pending_submits,
          future_to_actor, next_return_index, tasks, mailbox, waiting, writes, net,
          pbar_total, pbar_n, submit_log, last_result, last_dup, finish_log, received,
          date_from, date_until, date_interval, crawl_pc, crawl_error, search_dates,
          date_idx, queried, disk>>

\* The state of crawl_flickr_images, which download_crawled_images never touches.
crawlvars == <<date_from, date_until, date_interval, crawl_pc, crawl_error, search_dates,
               date_idx, queried, disk>>
params == <<json_files, n_workers, max_images, create_subdirs>>
ingest == <<file_idx, rec_idx, queued_urls, submit_log, last_result, last_dup>>
poolvars == <<idle_actors, pending_submits, future_to_actor, next_return_index>>
drainvars == <<waiting, pbar_total, pbar_n, received>>

\* No record was read yet.
NoResult == GoodRecord(None, None)

\* No duplicate was skipped yet.
NoDup == [furl |-> FlickrUrl(GoodRecord(None, None)), file |-> 0]

\* The stems of the files found, in sorted path order: all different, or (the
\* glob is recursive) the same stem in every directory.
FileLists ==
    { [i \in 1 .. k |-> i] : k \in 0 .. MaxFiles }
    \cup { [i \in 1 .. k |-> 1] : k \in 2 .. MaxFiles }

\* crawl_flickr_images does not run.
CrawlIdle ==
    /\ date_from = 0
    /\ date_until = 0
    /\ date_interval = 1
    /\ crawl_pc = "idle"
    /\ crawl_error = ""
    /\ search_dates = <<>>
    /\ date_idx = 0
    /\ queried = <<>>
    /\ disk = <<>>

\* download_crawled_images is entered: nothing was read or submitted yet.
DownloadEntered ==
    /\ pc = "start"
    /\ error = ""
    /\ file_idx = 0
    /\ rec_idx = 0
    /\ queued_urls = {}
    /\ idle_actors = <<>>
    /\ pending_submits = <<>>
    /\ future_to_actor = {}
    /\ next_return_index = 0
    /\ tasks = <<>>
    /\ mailbox = <<>>
    /\ waiting = 0
    /\ writes = {}
    /\ net = {}
    /\ pbar_total = -1
    /\ pbar_n = 0
    /\ submit_log = <<>>
    /\ last_result = NoResult
    /\ last_dup = NoDup
    /\ finish_log = <<>>
    /\ received = <<>>

Init ==
    /\ CrawlIdle
    /\ json_files \in FileLists
    /\ n_workers \in 1 .. MaxWorkers
    /\ max_images \in {NO_CAP} \cup (1 .. MaxCap)
    /\ create_subdirs \in BOOLEAN
    /\ DownloadEntered

\* ------------------------------------------------------------- ActorPool
\* ray.util.ActorPool as download_crawled_images uses it: submit hands the
\* value to an idle actor or queues it; get_next takes the oldest future not
\* yet returned, gives its actor back to the pool (which sends it the next
\* queued value) and then blocks in ray.get until that future's call is done.
\* An actor runs the calls sent to it one at a time, in the order sent.

\* A pool built with one actor more than n_workers.
PoolActorsOneMore(n) == [i \in 1 .. (n + 1) |-> i]
\* [SimpleDownloader.remote(...) for _ in range(n_workers)]
PoolActors(n) == [i \in 1 .. n |-> i]

NewTask(value, actor) ==
    [furl |-> value[1], subdir |-> value[2], actor |-> actor,
     stage |-> "queued", result |-> "", cause |-> "", thumb_size |-> <<0, 0>>]

\* ActorPool.submit on the pool state s: an idle actor takes the call, else
\* the value waits in _pending_submits.
PoolSubmit(s, value) ==
    IF s.idle_actors # <<>>
    THEN LET actor == s.idle_actors[Len(s.idle_actors)]
             idx == Len(s.tasks) + 1
         IN  [s EXCEPT !.idle_actors = SubSeq(@, 1, Len(@) - 1),
                       !.tasks = Append(@, NewTask(value, actor)),
                       !.mailbox[actor] = Append(@, idx),
                       !.future_to_actor = @ \cup {idx}]
    ELSE [s EXCEPT !.pending_submits = Append(@, value)]

\* ActorPool._return_actor
ReturnActor(s, actor) ==
    LET t == [s EXCEPT !.idle_actors = Append(@, actor)]
    IN  IF t.pending_submits # <<>>
        THEN PoolSubmit([t EXCEPT !.pending_submits = Tail(@)], Head(t.pending_submits))
        ELSE t

PoolState ==
    [idle_actors |-> idle_actors, pending_submits |-> pending_submits,
     future_to_actor |-> future_to_actor, tasks |-> tasks, mailbox |-> mailbox]

SetPool(s) ==
    /\ idle_actors' = s.idle_actors
    /\ pending_submits' = s.pending_submits
    /\ future_to_actor' = s.future_to_actor
    /\ tasks' = s.tasks
    /\ mailbox' = s.mailbox

\* ------------------------------------------------- download_crawled_images
\* The process runs: the workers end with it.
Alive == pc \notin {"done", "crashed"}

Crash(e) ==
    /\ pc' = "crashed"
    /\ error' = e

\* A test that never takes the early return.
NoBatchFileIgnored(files) == FALSE
\* Line 171: len(json_files) == 0
NoBatchFile(files) == Len(files) = 0

\* Lines 169-179: no batch file ends the run; else the pool is built.
Start ==
    /\ pc = "start"
    /\ IF NoBatchFile(json_files)
       THEN /\ pc' = "done"
            /\ UNCHANGED <<file_idx, idle_actors, mailbox>>
       ELSE /\ pc' = "open"
            /\ file_idx' = 1
            /\ idle_actors' = PoolActors(n_workers)
            /\ mailbox' = [a \in DOMAIN PoolActors(n_workers) |-> <<>>]
    /\ UNCHANGED <<crawlvars, params, error, rec_idx, queued_urls, submit_log,
                   last_result, last_dup, pending_submits, future_to_actor, next_return_index, tasks,
                   drainvars, writes, net, finish_log>>

\* Lines 183-185: the next batch file is opened and loaded. Its records are
\* drawn one by one as the loop reaches them (ProcessRecord); the batch ends
\* where EndBatch is taken, after at most MaxBatchLen records.
OpenFile ==
    /\ pc = "open"
    /\ rec_idx' = 1
    /\ pc' = "record"
    /\ UNCHANGED <<crawlvars, params, error, file_idx, queued_urls, submit_log,
                   last_result, last_dup, poolvars, tasks, mailbox, drainvars, writes,
                   net, finish_log>>

\* A value whose subdirectory is named after the last batch file found.
SubmitValueLastFile(furl) ==
    <<furl, IF create_subdirs THEN json_files[Len(json_files)] ELSE None>>
\* The value handed to pool.submit (lines 203-207).
SubmitValue(furl) ==
    <<furl, IF create_subdirs THEN json_files[file_idx] ELSE None>>

\* A test that also skips the record that would go beyond the cap.
InQueuedOrFull(furl, queued) ==
    \/ \E q \in queued : FlickrUrlEq(q, furl)
    \/ (Cardinality(queued) + 1 > max_images /\ max_images > 0)
\* Line 198: furl in queued_urls
InQueued(furl, queued) == \E q \in queued : FlickrUrlEq(q, furl)

\* Lines 187-207: the batch holds a further record, result.
ProcessRecord ==
    /\ pc = "record"
    /\ rec_idx <= MaxBatchLen
    /\ \E result \in Records :
         LET furl == FlickrUrl(result)
         IN  /\ last_result' = result
             /\ IF RecordError(result) # ""
                THEN /\ Crash(RecordError(result))
                     /\ UNCHANGED <<rec_idx, queued_urls, submit_log, last_dup, poolvars, tasks, mailbox>>
                ELSE IF InQueued(furl, queued_urls)
                THEN /\ rec_idx' = rec_idx + 1
                     /\ last_dup' = [furl |-> furl, file |-> file_idx]
                     /\ UNCHANGED <<pc, error, queued_urls, submit_log, poolvars, tasks, mailbox>>
                ELSE /\ rec_idx' = rec_idx + 1
                     /\ queued_urls' = queued_urls \cup {furl}
                     /\ submit_log' = Append(submit_log, [value |-> SubmitValue(furl), file |-> file_idx])
                     /\ SetPool(PoolSubmit(PoolState, SubmitValue(furl)))
                     /\ UNCHANGED <<pc, error, next_return_index, last_dup>>
    /\ UNCHANGED <<crawlvars, params, file_idx, drainvars, writes, net, finish_log>>

\* Line 209: len(queued_urls) > max_images > 0
CapExceeded(n, cap) == n > cap /\ cap > 0

\* Lines 209-212: the batch holds no further record: the cap is checked, then
\* the next file is opened or the drain loop entered.
EndBatch ==
    /\ pc = "record"
    /\ IF ~CapExceeded(Cardinality(queued_urls), max_images) /\ file_idx < Len(json_files)
       THEN /\ pc' = "open"
            /\ file_idx' = file_idx + 1
            /\ UNCHANGED pbar_total
       ELSE /\ pc' = "drain"
            /\ pbar_total' = Cardinality(queued_urls)
            /\ UNCHANGED file_idx
    /\ UNCHANGED <<crawlvars, params, error, rec_idx, queued_urls, submit_log,
                   last_result, last_dup, poolvars, tasks, mailbox, waiting, pbar_n, received, writes, net,
                   finish_log>>

\* What get_next_unordered would take: a future whose call is done, if any.
NextFutureUnordered ==
    IF \E f \in future_to_actor : tasks[f].stage = "finished"
    THEN CHOOSE f \in future_to_actor : tasks[f].stage = "finished"
    ELSE CHOOSE f \in future_to_actor : \A g \in future_to_actor : f <= g
\* The future get_next returns: the oldest one not yet returned.
NextFuture == next_return_index + 1

\* A drain loop that, once the pool is empty, goes back to the batch files
\* the ingestion loop has left unread.
DrainThenNextBatch ==
    /\ pc = "drain"
    /\ IF future_to_actor = {}
       THEN /\ pc' = IF file_idx < Len(json_files) THEN "open" ELSE "done"
            /\ file_idx' = IF file_idx < Len(json_files) THEN file_idx + 1 ELSE file_idx
            /\ UNCHANGED <<poolvars, tasks, mailbox, waiting>>
       ELSE LET future == NextFuture
                s == [PoolState EXCEPT !.future_to_actor = @ \ {future}]
            IN  /\ next_return_index' = next_return_index + 1
                /\ SetPool(ReturnActor(s, tasks[future].actor))
                /\ waiting' = future
                /\ pc' = "wait"
                /\ UNCHANGED file_idx
    /\ UNCHANGED <<crawlvars, params, error, rec_idx, queued_urls, submit_log, last_result,
                   last_dup, pbar_total, pbar_n, received, writes, net, finish_log>>

\* Lines 213-214: pool.has_next(), and get_next up to its ray.get(future): the
\* oldest future not yet returned is taken and its actor goes back to the pool.
Drain ==
    /\ pc = "drain"
    /\ IF future_to_actor = {}
       THEN /\ pc' = "done"
            /\ UNCHANGED <<poolvars, tasks, mailbox, waiting>>
       ELSE LET future == NextFuture
                s == [PoolState EXCEPT !.future_to_actor = @ \ {future}]
            IN  /\ next_return_index' = next_return_index + 1
                /\ SetPool(ReturnActor(s, tasks[future].actor))
                /\ waiting' = future
                /\ pc' = "wait"
    /\ UNCHANGED <<crawlvars, params, error, ingest, pbar_total, pbar_n, received, writes, net,
                   finish_log>>

\* Lines 214-215: ray.get(future) returns once the call has finished; the
\* result is unpacked into furl, meta and the bar advances.
GetResult ==
    /\ pc = "wait"
    /\ tasks[waiting].stage = "finished"
    /\ CASE tasks[waiting].result = "raised" ->      \* ray.get raises the call's exception
                /\ Crash("RayTaskError@214")
                /\ UNCHANGED <<waiting, received, pbar_n>>
         [] tasks[waiting].result = "none" ->        \* furl, meta = None
                /\ Crash("TypeError@214")
                /\ received' = Append(received, waiting)
                /\ UNCHANGED <<waiting, pbar_n>>
         [] OTHER ->
                /\ pc' = "drain"
                /\ waiting' = 0
                /\ received' = Append(received, waiting)
                /\ pbar_n' = pbar_n + 1
                /\ UNCHANGED error
    /\ UNCHANGED <<crawlvars, params, ingest, poolvars, tasks, mailbox, pbar_total, writes, net,
                   finish_log>>

\* ---------------------------------------------- SimpleDownloader.try_download
Path(root, subdir, name) == [root |-> root, subdir |-> subdir, name |-> name]
\* A thumbnail path built on output_dir instead of thumbs_dir.
ThumbPathUnderImages(t) == Path("images", t.subdir, basename(t.furl))
ThumbPath(t) == Path("thumbs", t.subdir, basename(t.furl))
ImagePath(t) == Path("images", t.subdir, basename(t.furl))
Write(idx, path) == [task |-> idx, path |-> path]
\* The files under output_path.
Files == { w.path : w \in writes }

\* No check at all.
is_image_validAlways(size) == TRUE
\* A check of the shorter side instead of the longer.
is_image_validLoose(size) ==
    ~((IF size[1] < size[2] THEN size[1] ELSE size[2]) < MIN_SIZE)
\* Lines 107-111: max(img.size) < 75 is invalid.
is_image_valid(size) ==
    ~((IF size[1] > size[2] THEN size[1] ELSE size[2]) < MIN_SIZE)

ThumbSizes == {<<MIN_SIZE - 1, MIN_SIZE - 1>>, <<MIN_SIZE - 1, MIN_SIZE>>}

\* The call at the head of an actor's mailbox is the one it executes.
Current(a) == Head(mailbox[a])

\* try_download returns: r is "ok" (furl, meta), "none" (None) or "raised".
Finish(a, r, cause) ==
    /\ tasks' = [tasks EXCEPT ![Current(a)].stage = "finished",
                              ![Current(a)].result = r,
                              ![Current(a)].cause = cause]
    /\ mailbox' = [mailbox EXCEPT ![a] = Tail(@)]
    /\ finish_log' = Append(finish_log, Current(a))

Goto(a, stage) ==
    /\ tasks' = [tasks EXCEPT ![Current(a)].stage = stage]
    /\ UNCHANGED <<mailbox, finish_log>>

WorkerFrame == <<crawlvars, params, pc, error, ingest, poolvars, drainvars>>

\* The exceptions try_download turns into a None result (line 152).
Caught(e) == e = "HTTPError"

\* What try_download returns when exception e is raised inside it.
Raise(a, phase, e) == Finish(a, IF Caught(e) THEN "none" ELSE "raised", phase \o e)

\* Lines 116-117: the actor takes its next call and issues the thumbnail GET.
Begin(a) ==
    /\ Alive
    /\ mailbox[a] # <<>>
    /\ tasks[Current(a)].stage = "queued"
    /\ IF get_url(tasks[Current(a)].furl, "n") = NoUrl
       THEN /\ Raise(a, "thumb_", "NotImplementedError")
            /\ UNCHANGED net
       ELSE /\ Goto(a, "thumb_get")
            /\ net' = net \cup {<<Current(a), "n">>}
    /\ UNCHANGED <<WorkerFrame, writes>>

\* What a GET ends with. urlopen(url) is called without a timeout (lines 117,
\* 135) and the socket default is none: when the endpoint never answers
\* ("NoAnswer"), the call stays inside urlopen.
ThumbGetOutcomes == {"ok", "HTTPError", "URLError", "UnidentifiedImageError", "NoAnswer"}
WriteOutcomes == {"ok", "OSError"}
FullGetOutcomes == {"ok", "HTTPError", "URLError", "NoAnswer"}

\* Lines 117-135: the thumbnail GET answers; the image is decoded and checked,
\* the thumbnail written and the full-image GET issued.
ThumbPhase(a) ==
    /\ Alive
    /\ mailbox[a] # <<>>
    /\ tasks[Current(a)].stage = "thumb_get"
    /\ \E o \in ThumbGetOutcomes, size \in ThumbSizes, w \in WriteOutcomes :
         LET t == [tasks[Current(a)] EXCEPT !.thumb_size = IF o = "ok" THEN size ELSE @]
             seen == [tasks EXCEPT ![Current(a)] = t]
         IN  IF o = "NoAnswer"
             THEN /\ Goto(a, "blocked")
                  /\ UNCHANGED <<writes, net>>
             ELSE IF o # "ok"
             THEN /\ Raise(a, "thumb_", o)
                  /\ UNCHANGED <<writes, net>>
             ELSE IF ~is_image_valid(size)
             THEN /\ tasks' = [seen EXCEPT ![Current(a)].stage = "finished",
                                            ![Current(a)].result = "none",
                                            ![Current(a)].cause = "invalid"]
                  /\ mailbox' = [mailbox EXCEPT ![a] = Tail(@)]
                  /\ finish_log' = Append(finish_log, Current(a))
                  /\ UNCHANGED <<writes, net>>
             ELSE IF w # "ok"
             THEN /\ tasks' = [seen EXCEPT ![Current(a)].stage = "finished",
                                            ![Current(a)].result =
                                                IF Caught(w) THEN "none" ELSE "raised",
                                            ![Current(a)].cause = "thumb_" \o w]
                  /\ mailbox' = [mailbox EXCEPT ![a] = Tail(@)]
                  /\ finish_log' = Append(finish_log, Current(a))
                  /\ UNCHANGED <<writes, net>>
             ELSE /\ tasks' = [seen EXCEPT ![Current(a)].stage = "full_get"]
                  /\ writes' = writes \cup {Write(Current(a), ThumbPath(t))}
                  /\ net' = net \cup {<<Current(a), "o">>}
                  /\ UNCHANGED <<mailbox, finish_log>>
    /\ UNCHANGED WorkerFrame

\* Lines 135-150: the full-image GET answers; the image is written and
\* (furl, meta) returned.
FullPhase(a) ==
    /\ Alive
    /\ mailbox[a] # <<>>
    /\ tasks[Current(a)].stage = "full_get"
    /\ \E o \in FullGetOutcomes, w \in WriteOutcomes :
         IF o = "NoAnswer"
         THEN /\ Goto(a, "blocked")
              /\ UNCHANGED writes
         ELSE IF o # "ok"
         THEN /\ Raise(a, "full_", o)
              /\ UNCHANGED writes
         ELSE IF w # "ok"
         THEN /\ Raise(a, "full_", w)
              /\ UNCHANGED writes
         ELSE /\ Finish(a, "ok", "")
              /\ writes' = writes \cup {Write(Current(a), ImagePath(tasks[Current(a)]))}
    /\ UNCHANGED <<WorkerFrame, net>>

Next ==
    \/ Start
    \/ OpenFile
    \/ ProcessRecord
    \/ EndBatch
    \/ Drain
    \/ GetResult
    \/ \E a \in DOMAIN mailbox : Begin(a)
    \/ \E a \in DOMAIN mailbox : ThumbPhase(a)
    \/ \E a \in DOMAIN mailbox : FullPhase(a)

Spec == Init /\ [][Next]_vars

\* The steps of the process that runs download_crawled_images, and of the
\* process of actor a.
Driver == Start \/ OpenFile \/ ProcessRecord \/ EndBatch \/ Drain \/ GetResult
Worker(a) == a \in DOMAIN mailbox /\ (Begin(a) \/ ThumbPhase(a) \/ FullPhase(a))

\* Fair scheduling: the driver and every actor are processes of their own
\* (ray.init(num_cpus=n_workers), line 175), and each goes on while it can. A
\* GET in flight ends in one of its outcomes, which include no answer at all.
FairSpec ==
    /\ Spec
    /\ WF_vars(Driver)
    /\ \A a \in 1 .. MaxWorkers : WF_vars(Worker(a))

\* ------------------------------------------------------ crawl_flickr_images
\* Dates are day numbers. Lines 112-116: the start dates of the windows, from
\* date_from on in steps of date_interval days, none after date_until.
RECURSIVE SearchDates(_, _, _)
SearchDates(cur_date, until, interval) ==
    IF cur_date <= until
    THEN <<cur_date>> \o SearchDates(cur_date + interval, until, interval)
    ELSE <<>>

\* Lines 57-85: len(results) when the walk yields photos photos and raises
\* nothing: the loop stops at the max-th photo.
search_for_keyword(photos, max) ==
    IF max > 0 /\ photos >= max THEN max ELSE photos

\* A file name that leaves the date out.
FileNameCountOnly(search_date, n) == [date |-> None, n |-> n]
\* Line 132: f"{_search_date.strftime('%Y%m%d')}_{len(results):04d}.json"
FileName(search_date, n) == [date |-> search_date, n |-> n]

\* What a query ends with: results, an API error (code 100 or another), or an
\* exception that is no FlickrError.
QueryOutcomes == {"ok", "FlickrError100", "FlickrError", "ConnectionError"}

\* The exceptions crawl_flickr_images catches (line 123).
CrawlCaught(e) == e \in {"FlickrError100", "FlickrError"}

DownloadFrame ==
    <<params, pc, error, ingest, poolvars, drainvars, tasks, mailbox, writes, net,
      finish_log>>

\* Lines 105-116: the list of window start dates is built.
CrawlStart ==
    /\ crawl_pc = "start"
    /\ search_dates' = SearchDates(date_from, date_until, date_interval)
    /\ date_idx' = 1
    /\ crawl_pc' = "query"
    /\ UNCHANGED <<date_from, date_until, date_interval, crawl_error, queried, disk,
                   DownloadFrame>>

\* Lines 119-137: one turn of the loop: the window is queried; an API error
\* ends the function (return), another exception leaves it; else the results
\* are dumped to the window's file.
Query ==
    /\ crawl_pc = "query"
    /\ date_idx <= Len(search_dates)
    /\ queried' = Append(queried, search_dates[date_idx])
    /\ \E o \in QueryOutcomes, photos \in 0 .. MaxPhotos :
         IF o = "ok"
         THEN /\ disk' = Append(disk, FileName(search_dates[date_idx],
                                               search_for_keyword(photos, MaxResults)))
              /\ date_idx' = date_idx + 1
              /\ UNCHANGED <<crawl_pc, crawl_error>>
         ELSE /\ crawl_pc' = IF CrawlCaught(o) THEN "done" ELSE "crashed"
              /\ crawl_error' = o
              /\ UNCHANGED <<disk, date_idx>>
    /\ UNCHANGED <<date_from, date_until, date_interval, search_dates, DownloadFrame>>

\* Line 119: the list of windows is exhausted.
CrawlEnd ==
    /\ crawl_pc = "query"
    /\ date_idx > Len(search_dates)
    /\ crawl_pc' = "done"
    /\ UNCHANGED <<date_from, date_until, date_interval, crawl_error, search_dates,
                   date_idx, queried, disk, DownloadFrame>>

\* crawl_flickr_images is entered; download_crawled_images does not run.
CrawlInit ==
    /\ date_from \in 0 .. MaxDate
    /\ date_until \in 0 .. MaxDate
    /\ date_interval \in 1 .. MaxInterval
    /\ crawl_pc = "start"
    /\ crawl_error = ""
    /\ search_dates = <<>>
    /\ date_idx = 0
    /\ queried = <<>>
    /\ disk = <<>>
    /\ json_files = <<>>
    /\ n_workers = 1
    /\ max_images = NO_CAP
    /\ create_subdirs = TRUE
    /\ DownloadEntered

NextCrawl ==
    \/ CrawlStart
    \/ Query
    \/ CrawlEnd

SpecCrawl == CrawlInit /\ [][NextCrawl]_vars


\* ------------------------------------------------------------------ claims
TaskIds == 1 .. Len(tasks)
SubmittedFurl(k) == submit_log[k].value[1]
MaxDim(size) == IF size[1] > size[2] THEN size[1] ELSE size[2]
\* The try_download calls that have started and not returned.
Executing == { t \in TaskIds : tasks[t].stage \in {"thumb_get", "full_get", "blocked"} }
WritesOf(t, root) == { w \in writes : w.task = t /\ w.path.root = root }
DrainErrors == {"TypeError@214", "RayTaskError@214"}
\* How a descriptor fails: the thumbnail fetch, the validity check, the
\* full-image fetch, a file write.
DescriptorFailures ==
    {"thumb_HTTPError", "thumb_URLError", "thumb_UnidentifiedImageError", "invalid",
     "full_HTTPError", "full_URLError", "thumb_OSError", "full_OSError"}
\* The drain loop was ended by the failure of the descriptor it waited for.
EndedByFailure ==
    /\ pc = "crashed"
    /\ error \in DrainErrors
    /\ tasks[waiting].cause \in DescriptorFailures

\* C1: in the whole run each descriptor identifier is handed to pool.submit at
\* most once, also when it comes again in a later batch with other metadata.
C1_SubmittedAtMostOnce ==
    \A i, j \in 1 .. Len(submit_log) :
        i # j => SubmittedFurl(i).id # SubmittedFurl(j).id

\* A record of a later batch with a queued identifier and every other field
\* different was read, and skipped.
C1_Witness ==
    \E k \in 1 .. Len(submit_log) :
        LET q == SubmittedFurl(k)
            d == last_dup
        IN  /\ d # NoDup
            /\ q.id = d.furl.id
            /\ submit_log[k].file < d.file
            /\ q.owner # d.furl.owner /\ q.secret # d.furl.secret
            /\ q.server # d.furl.server /\ q.farm # d.furl.farm
            /\ q.title # d.furl.title /\ q.url_o # d.furl.url_o

\* C2: the failure of one descriptor (a failed fetch, a rejected thumbnail, a
\* failed write) never ends the run: the drain loop is never stopped by it.
C2_FailureNeverEndsRun ==
    ~EndedByFailure

\* C3: when the run ends, after all results or at a failed descriptor, the
\* drain loop has received one result for every descriptor submitted.
C3_OneResultPerSubmission ==
    (pc = "done" \/ EndedByFailure) => Len(received) = Len(submit_log)

\* C4: at most n_workers try_download calls execute at a time, and at most
\* one on each worker.
C4_AtMostNExecuting ==
    /\ Cardinality(Executing) <= n_workers
    /\ \A a \in DOMAIN mailbox :
         Cardinality({ t \in Executing : tasks[t].actor = a }) <= 1

\* More descriptors were submitted than there are workers, and every worker
\* executes a call.
C4_Witness ==
    /\ Len(submit_log) > n_workers
    /\ Cardinality(Executing) = n_workers
    /\ pending_submits # <<>>

\* C5: a record that lacks secret or server is skipped: it never ends the
\* ingestion loop, which goes on to the following records and batches.
C5_MalformedRecordSkipped ==
    ~(pc = "crashed" /\ error \in {"KeyError@193", "ValueError@29"})

\* C6: with a positive cap, no further batch is opened once the number of
\* submitted descriptors at the end of a batch is max_images or more.
C6_NoBatchOpenedAtCap ==
    (pc = "open" /\ file_idx > 1 /\ max_images > 0)
        => Cardinality(queued_urls) < max_images

\* C7: a thumbnail whose longer side is at least 75 px is accepted and the
\* worker goes on (thumbnail write, then the full-image GET); one whose longer
\* side is below 75 px is rejected: the call returns None, issues no
\* full-image GET and writes no file.
C7_ThumbnailThreshold ==
    \A t \in TaskIds :
        tasks[t].thumb_size # <<0, 0>> =>
            IF MaxDim(tasks[t].thumb_size) >= 75
            THEN /\ tasks[t].cause # "invalid"
                 /\ <<t, "o">> \in net \/ tasks[t].cause = "thumb_OSError"
            ELSE /\ tasks[t].stage = "finished"
                 /\ tasks[t].result = "none"
                 /\ <<t, "o">> \notin net
                 /\ { w \in writes : w.task = t } = {}

\* One thumbnail was accepted and its full-image GET issued, another rejected.
C7_Witness ==
    /\ \E t \in TaskIds : /\ MaxDim(tasks[t].thumb_size) >= 75
                          /\ <<t, "o">> \in net
    /\ \E t \in TaskIds : /\ tasks[t].thumb_size # <<0, 0>>
                          /\ MaxDim(tasks[t].thumb_size) < 75
                          /\ tasks[t].stage = "finished"

\* C8: a transport failure of the thumbnail phase (connection error, non-2xx
\* status, decode failure) writes no full image and makes try_download return
\* its failure value, not raise.
C8_ThumbnailFailureReturned ==
    \A t \in TaskIds :
        tasks[t].cause \in {"thumb_HTTPError", "thumb_URLError",
                            "thumb_UnidentifiedImageError"}
            => /\ WritesOf(t, "images") = {}
               /\ tasks[t].result = "none"

C10_CompletionOrder ==
    (\A t \in TaskIds : tasks[t].result \in {"", "ok"})
        => \A k \in 1 .. Len(received) : received[k] = finish_log[k]

\* C10 as amended: the drain loop receives the results in submission order:
\* its k-th result is the one of the k-th descriptor submitted, also when a
\* descriptor submitted later finished first.
C10_SubmissionOrder ==
    \A k \in 1 .. Len(received) :
        tasks[received[k]].furl = SubmittedFurl(k)

\* The second descriptor submitted finished first, and the drain loop has
\* received the result of the first.
C10_Witness ==
    /\ Len(finish_log) >= 2
    /\ finish_log[1] = 2
    /\ Len(received) >= 1
    /\ received[1] = 1

\* A try_download call has started and not returned / has returned.
Started(t) == t \in TaskIds /\ tasks[t].stage \in {"thumb_get", "full_get", "blocked"}
Returned(t) == t \in TaskIds /\ tasks[t].stage = "finished"

\* C11: under fair scheduling, every try_download call that has started
\* eventually returns, as long as the run goes on: no fetch keeps its worker,
\* and the drain loop that waits for it, for ever.
C11_EveryCallReturns ==
    \A t \in 1 .. NumIds : Started(t) ~> (Returned(t) \/ ~Alive)

\* C12: when no batch file is found, the run ends at once, without error and
\* with no work done: no pool, no submission, no call, no GET, no file.
C12_NoBatchFileNoWork ==
    (Len(json_files) = 0 /\ pc # "start")
        => /\ pc = "done"
           /\ error = ""
           /\ idle_actors = <<>> /\ mailbox = <<>>
           /\ submit_log = <<>> /\ tasks = <<>> /\ pending_submits = <<>>
           /\ net = {} /\ writes = {}
           /\ pbar_total = -1

\* The run over an input root without batch files has ended.
C12_Witness ==
    Len(json_files) = 0 /\ pc = "done"

\* The descriptors constructed so far, and whether the arguments of the
\* constructor call of lines 193-196 could be evaluated for record r.
Constructed ==
    queued_urls \cup { tasks[t].furl : t \in TaskIds }
        \cup (IF last_dup # NoDup THEN {last_dup.furl} ELSE {})
ReachesInit(r) ==
    /\ r.width_o # Missing
    /\ \A k \in {"id", "owner", "secret", "server", "farm"} : r[k] # Missing

\* C13: FlickrUrl(...) raises if and only if secret or server is None; every
\* descriptor constructed has both; the one check of a descriptor made at
\* fetch time (get_url) is about farm, never about secret or server.
C13_ConstructionFailsIffMissing ==
    /\ \A f \in Constructed : f.secret # None /\ f.server # None
    /\ (last_result # NoResult /\ ReachesInit(last_result))
           => ((pc = "crashed" /\ error = "ValueError@29")
                  <=> (last_result.secret = None \/ last_result.server = None))
    /\ \A t \in TaskIds :
           tasks[t].cause = "thumb_NotImplementedError" => tasks[t].furl.farm = None

\* After a descriptor was constructed and submitted, the construction of
\* another, with a secret and without a server, has failed.
C13_Witness ==
    /\ pc = "crashed" /\ error = "ValueError@29"
    /\ last_result.secret # None /\ last_result.server = None
    /\ queued_urls # {}

\* The submissions made for the batch files before the one the loop stands at.
SubmittedBefore(f) == { k \in 1 .. Len(submit_log) : submit_log[k].file < f }

\* C14: the cap never truncates a batch. Every record read (and turned into a
\* descriptor) is queued and submitted, or was before, whatever the cap; what
\* was submitted is what was queued; and the submissions of the batches before
\* the last one read never exceed a positive cap.
C14_CapNeverTruncatesABatch ==
    /\ (last_result # NoResult /\ RecordError(last_result) = "")
           => \E k \in 1 .. Len(submit_log) : SubmittedFurl(k).id = last_result.id
    /\ { SubmittedFurl(k) : k \in 1 .. Len(submit_log) } = queued_urls
    /\ max_images > 0 => Cardinality(SubmittedBefore(file_idx)) <= max_images

\* With a cap of 1, both records of the first batch were submitted, and the
\* drain loop was entered with a batch file left unread.
C14_Witness ==
    /\ max_images = 1
    /\ Len(submit_log) = 2
    /\ submit_log[1].file = 1 /\ submit_log[2].file = 1
    /\ pc = "drain"
    /\ file_idx < Len(json_files)

\* The steps call t has taken, read off what they leave behind.
ThumbRequested(t) == <<t, "n">> \in net
ThumbAccepted(t) == tasks[t].thumb_size # <<0, 0>> /\ MaxDim(tasks[t].thumb_size) >= 75
ThumbWritten(t) == WritesOf(t, "thumbs") # {}
FullRequested(t) == <<t, "o">> \in net
FullWritten(t) == WritesOf(t, "images") # {}
Succeeded(t) == tasks[t].stage = "finished" /\ tasks[t].result = "ok"

\* C15: for each descriptor the steps occur in the order thumbnail GET,
\* validity check, thumbnail write, full-image GET, full-image write, success
\* result: no step has happened unless the one before it has. The full-image
\* GET is not issued before the thumbnail was fetched and accepted, and
\* success is not returned before the full image was written.
C15_WorkerStepOrder ==
    \A t \in TaskIds :
        /\ tasks[t].thumb_size # <<0, 0>> => ThumbRequested(t)
        /\ ThumbWritten(t) => ThumbRequested(t) /\ ThumbAccepted(t)
        /\ FullRequested(t) => ThumbWritten(t)
        /\ FullWritten(t) => FullRequested(t)
        /\ Succeeded(t) => FullWritten(t)
        /\ tasks[t].stage = "full_get" => FullRequested(t) /\ ~FullWritten(t)
        /\ tasks[t].stage = "thumb_get" => ThumbRequested(t) /\ ~ThumbWritten(t)
        /\ tasks[t].stage = "queued" => ~ThumbRequested(t)

\* One call is through all six steps while another waits for its full image.
C15_Witness ==
    \E t, u \in TaskIds :
        /\ Succeeded(t) /\ FullWritten(t) /\ ThumbWritten(t) /\ ThumbAccepted(t)
        /\ tasks[u].stage = "full_get" /\ ThumbWritten(u)

\* The ingestion loop runs: a batch is being read, or the next is to be opened.
Ingesting == pc \in {"open", "record"}
\* The call of a descriptor of an earlier batch has returned while the batch
\* the ingestion loop stands at is still to be ingested.
EarlierBatchCompleted ==
    /\ Ingesting
    /\ \E t \in TaskIds : Returned(t) /\ submit_log[t].file < file_idx

\* C16 as claimed: results can arrive interleaved with the submissions of
\* later batches: where the call of a descriptor of an earlier batch has
\* completed and a later batch is not yet ingested, the caller can receive a
\* result (a step of pool.get_next() is possible).
C16_ResultsArriveDuringIngestion ==
    EarlierBatchCompleted => ENABLED (Drain \/ GetResult)

\* C16 as amended: calls complete while later batches are ingested, but the
\* caller receives nothing, and does not ask for anything, before the
\* ingestion loop has ended.
C16_NoResultBeforeIngestionEnds ==
    (received # <<>> \/ waiting # 0) => (~Ingesting /\ pc # "start" /\ pbar_total # -1)

\* The call of a descriptor of the first batch has returned, the second
\* batch is being read, and the caller has received nothing.
C16_Witness ==
    /\ EarlierBatchCompleted
    /\ pc = "record"
    /\ received = <<>>

\* The paths try_download writes for the k-th value submitted.
SubmittedTask(k) == [furl |-> submit_log[k].value[1], subdir |-> submit_log[k].value[2]]

C18_ProgressCountsEveryResult ==
    /\ pbar_total # -1 => pbar_total = Len(submit_log)
    /\ pbar_total # -1 => pbar_n <= pbar_total
    /\ pbar_n = Len(received)

\* The batch file for which identifier id was submitted, and the files
\* try_download has written for it.
SubmissionsOf(id) == { k \in 1 .. Len(submit_log) : SubmittedFurl(k).id = id }
FirstFileOf(id) == submit_log[CHOOSE k \in SubmissionsOf(id) : TRUE].file
WritesOfId(id) == { w \in writes : tasks[w.task].furl.id = id }
\* A record of a later batch was skipped as a duplicate.
SkippedInLaterBatch == last_dup # NoDup /\ FirstFileOf(last_dup.furl.id) < last_dup.file

\* C19 as claimed: with subdirectories, the files of an identifier that came
\* again in a later batch are under the subdirectory named after the first
\* batch file that holds it, and not under the subdirectory of the later one.
C19_NeverUnderLaterBatchSubdir ==
    (create_subdirs /\ SkippedInLaterBatch)
        => \A w \in WritesOfId(last_dup.furl.id) :
               /\ w.path.subdir = json_files[FirstFileOf(last_dup.furl.id)]
               /\ w.path.subdir # json_files[last_dup.file]

\* C19 as amended: with subdirectories, an identifier is submitted once, for
\* the first batch file (in sorted path order) that holds it, and every file
\* written for it is under the subdirectory named after that file: under the
\* subdirectory of a later batch only where the two files have one base name.
C19_OnlyUnderFirstBatchSubdir ==
    create_subdirs =>
        /\ \A k \in 1 .. Len(submit_log) :
               /\ Cardinality(SubmissionsOf(SubmittedFurl(k).id)) = 1
               /\ submit_log[k].value[2] = json_files[submit_log[k].file]
        /\ \A w \in writes : w.path.subdir = json_files[submit_log[w.task].file]
        /\ last_dup # NoDup =>
               /\ SubmissionsOf(last_dup.furl.id) # {}
               /\ FirstFileOf(last_dup.furl.id) <= last_dup.file
               /\ \A w \in WritesOfId(last_dup.furl.id) :
                      /\ w.path.subdir = json_files[FirstFileOf(last_dup.furl.id)]
                      /\ json_files[last_dup.file] # json_files[FirstFileOf(last_dup.furl.id)]
                             => w.path.subdir # json_files[last_dup.file]

\* An identifier of the first batch came again in the second, whose file has
\* another base name, and its full image was written.
C19_Witness ==
    /\ create_subdirs
    /\ SkippedInLaterBatch
    /\ json_files[last_dup.file] # json_files[FirstFileOf(last_dup.furl.id)]
    /\ \E w \in WritesOfId(last_dup.furl.id) : w.path.root = "images"

\* The queries that have returned results: all made, but the one that raised.
SucceededQueries == IF crawl_error = "" THEN Len(queried) ELSE Len(queried) - 1

\* C20: the windows are queried in increasing date order, each once; one
\* batch file is written per window whose query succeeded, named after its
\* date, and no file is written twice; a query that raises is the last one
\* made, so the files are those of the windows before it.
C20_OneFilePerWindowBeforeFailure ==
    crawl_pc \notin {"idle", "start"} =>
        /\ \A i, j \in 1 .. Len(search_dates) : i < j => search_dates[i] < search_dates[j]
        /\ Len(queried) <= Len(search_dates)
        /\ \A k \in 1 .. Len(queried) : queried[k] = search_dates[k]
        /\ crawl_error # "" => crawl_pc \in {"done", "crashed"} /\ Len(queried) >= 1
        /\ crawl_error = "" => Len(queried) = date_idx - 1
        /\ Len(disk) = SucceededQueries
        /\ \A k \in 1 .. Len(disk) : disk[k].date = queried[k]
        /\ \A i, j \in 1 .. Len(disk) : i # j => disk[i] # disk[j]
        /\ (crawl_pc = "done" /\ crawl_error = "") => Len(disk) = Len(search_dates)

\* The second query raised an API error: the function has returned, the file
\* of the first window is there and a third window was never queried.
C20_Witness ==
    /\ crawl_pc = "done"
    /\ crawl_error \in {"FlickrError100", "FlickrError"}
    /\ Len(queried) = 2
    /\ Len(disk) = 1
    /\ Len(search_dates) >= 3

====
